---- MODULE Spec2Model ----
(***************************************************************************)
(* Model of config/baidu-api-example.py: a script that constructs an       *)
(* OpenAI-compatible client, issues one blocking chat-completion call and  *)
(* prints the returned object.                                             *)
(*                                                                         *)
(* The script is the only code of the repository.  The SDK and the remote  *)
(* service are outside it: the outcome of the blocking call (which         *)
(* response is returned, or which exception is raised) is a                *)
(* nondeterministic choice of the environment.                             *)
(***************************************************************************)
EXTENDS Naturals, Sequences, FiniteSets

(* ---------------------------- bounds ----------------------------------- *)

\* longest api key the user may have filled in at line 10
MaxKeyLen == 2
\* number of distinct completion ids the remote may answer with
MaxId == 2

(* ------------------------- literals of the script ---------------------- *)

\* an unbound name / absent value, and a bound one
None == <<>>

Some(x) == <<x>>

\* line 9: base_url='https://qianfan.baidubce.com/v2'
BaseUrl == "https://qianfan.baidubce.com/v2"

\* line 14: model="ernie-3.5-8k"
Model == "ernie-3.5-8k"

\* line 18: the content string, as its two code points U+60A8 U+597D
Content == <<24744, 22909>>

\* variant: a system message is put in front of the user message
MessagesWithSystem ==
    << [role |-> "system", content |-> <<>>],
       [role |-> "user", content |-> Content] >>

\* lines 15-20: messages=[{"role": "user", "content": ...}]
Messages == << [role |-> "user", content |-> Content] >>

\* variant: web search switched on
ExtraBodySearchOn ==
    [web_search |-> [enable |-> TRUE,
                     enable_citation |-> FALSE,
                     enable_trace |-> FALSE]]

\* lines 21-27: extra_body={"web_search": {...}}
ExtraBody ==
    [web_search |-> [enable |-> FALSE,
                     enable_citation |-> FALSE,
                     enable_trace |-> FALSE]]

(* ------------------------- inputs and environment ---------------------- *)

KeyChars == {"a", "b"}

\* the values the user may have put between the quotes at line 10; the
\* shipped file has the empty string
ApiKeys == UNION {[1..n -> KeyChars] : n \in 0..MaxKeyLen}

EmptyKey == <<>>

\* objects the blocking call may return
Responses == [id : 1..MaxId, content : {"hello", "hi"}]

\* exceptions the blocking call may raise
ErrorKinds == {"network", "authentication", "validation",
               "rate_limit", "server", "deserialization"}

\* print(response): the text of the object, one line on standard output
Str(r) == <<"ChatCompletion(", "id=", r.id, "content=", r.content, ")">>

(* ------------------------------ state ---------------------------------- *)

VARIABLES
    pc,          \* position of the script
    api_key,     \* the literal at line 10
    client,      \* the module-level name `client`
    request,     \* keyword arguments of the call in flight / made
    calls,       \* number of create(...) calls issued
    exchange,    \* "none", "pending", "completed", "failed"
    delivered,   \* what the call returned (environment side)
    response,    \* the module-level name `response`
    error,       \* the exception raised by the call
    stdout,      \* lines written to standard output
    stderr,      \* lines written to standard error
    exitcode     \* process exit status

vars == <<pc, api_key, client, request, calls, exchange, delivered,
          response, error, stdout, stderr, exitcode>>

Init ==
    /\ pc = "start"
    /\ api_key \in ApiKeys
    /\ client = None
    /\ request = None
    /\ calls = 0
    /\ exchange = "none"
    /\ delivered = None
    /\ response = None
    /\ error = None
    /\ stdout = <<>>
    /\ stderr = <<>>
    /\ exitcode = None

(* ------------------------------ actions -------------------------------- *)

\* lines 8-11: client = OpenAI(base_url=..., api_key=...)
Construct ==
    /\ pc = "start"
    /\ client' = Some([base_url |-> BaseUrl, api_key |-> api_key])
    /\ pc' = "constructed"
    /\ UNCHANGED <<api_key, request, calls, exchange, delivered, response,
                   error, stdout, stderr, exitcode>>

\* variant: the call rewrites the key held by the client
CallCreateRewritesKey ==
    /\ pc = "constructed"
    /\ request' = Some([model |-> Model, messages |-> Messages,
                        extra_body |-> ExtraBody])
    /\ client' = Some([client[1] EXCEPT !.api_key = <<"a">> \o @])
    /\ calls' = calls + 1
    /\ exchange' = "pending"
    /\ pc' = "pending"
    /\ UNCHANGED <<api_key, delivered, response, error, stdout,
                   stderr, exitcode>>

\* lines 13-28: client.chat.completions.create(...) is entered; the script
\* blocks until the call returns or raises
CallCreate ==
    /\ pc = "constructed"
    /\ request' = Some([model |-> Model, messages |-> Messages,
                        extra_body |-> ExtraBody])
    /\ calls' = calls + 1
    /\ exchange' = "pending"
    /\ pc' = "pending"
    /\ UNCHANGED <<api_key, client, delivered, response, error, stdout,
                   stderr, exitcode>>

\* variant: the returned object is rebuilt before it is bound
ReturnResponseAltered ==
    /\ pc = "pending"
    /\ \E r \in Responses :
        /\ delivered' = Some(r)
        /\ response' = Some([r EXCEPT !.content = "hello"])
    /\ exchange' = "completed"
    /\ pc' = "returned"
    /\ UNCHANGED <<api_key, client, request, calls, error, stdout, stderr,
                   exitcode>>

\* line 13: the call returns; its value is bound to `response`
ReturnResponse ==
    /\ pc = "pending"
    /\ \E r \in Responses :
        /\ delivered' = Some(r)
        /\ response' = Some(r)
    /\ exchange' = "completed"
    /\ pc' = "returned"
    /\ UNCHANGED <<api_key, client, request, calls, error, stdout, stderr,
                   exitcode>>

\* variant: a failed call is issued once more
RaiseErrorRetry ==
    /\ pc = "pending"
    /\ \E k \in ErrorKinds : error' = Some(k)
    /\ IF calls < 2
          THEN /\ calls' = calls + 1
               /\ exchange' = "pending"
               /\ pc' = "pending"
          ELSE /\ calls' = calls
               /\ exchange' = "failed"
               /\ pc' = "raised"
    /\ UNCHANGED <<api_key, client, request, delivered, response, stdout,
                   stderr, exitcode>>

\* variant: a failed call is replaced by a canned answer
RaiseErrorFallback ==
    /\ pc = "pending"
    /\ \E k \in ErrorKinds : error' = Some(k)
    /\ response' = Some([id |-> 1, content |-> "hello"])
    /\ exchange' = "failed"
    /\ pc' = "returned"
    /\ UNCHANGED <<api_key, client, request, calls, delivered, stdout,
                   stderr, exitcode>>

\* line 13: the call raises; nothing is bound to `response`
RaiseError ==
    /\ pc = "pending"
    /\ \E k \in ErrorKinds : error' = Some(k)
    /\ exchange' = "failed"
    /\ pc' = "raised"
    /\ UNCHANGED <<api_key, client, request, calls, delivered, response,
                   stdout, stderr, exitcode>>

\* line 30: print(response)
PrintResponse ==
    /\ pc = "returned"
    /\ stdout' = Append(stdout, Str(response[1]))
    /\ pc' = "printed"
    /\ UNCHANGED <<api_key, client, request, calls, exchange, delivered,
                   response, error, stderr, exitcode>>

\* end of file: the interpreter exits with status 0
ExitNormal ==
    /\ pc = "printed"
    /\ exitcode' = Some(0)
    /\ pc' = "exited"
    /\ UNCHANGED <<api_key, client, request, calls, exchange, delivered,
                   response, error, stdout, stderr>>

\* variant: the exception is caught by a loop that runs the call again
ExitUnhandledRestart ==
    /\ pc = "raised"
    /\ IF calls < 2
          THEN /\ exchange' = "none"
               /\ pc' = "constructed"
               /\ UNCHANGED <<stderr, exitcode>>
          ELSE /\ stderr' = Append(stderr, error[1])
               /\ exitcode' = Some(1)
               /\ pc' = "crashed"
               /\ UNCHANGED exchange
    /\ UNCHANGED <<api_key, client, request, calls, delivered,
                   response, error, stdout>>

\* no try/except around line 13: the exception reaches the top level, the
\* interpreter reports it on standard error and exits with status 1
ExitUnhandled ==
    /\ pc = "raised"
    /\ stderr' = Append(stderr, error[1])
    /\ exitcode' = Some(1)
    /\ pc' = "crashed"
    /\ UNCHANGED <<api_key, client, request, calls, exchange, delivered,
                   response, error, stdout>>

Next ==
    \/ Construct
    \/ CallCreate
    \/ ReturnResponse
    \/ RaiseError
    \/ PrintResponse
    \/ ExitNormal
    \/ ExitUnhandled

Spec == Init /\ [][Next]_vars

\* The script is sequential and each statement runs to its end; the
\* blocking call ends when the remote side delivers a response or an error.
LiveSpec == Spec /\ WF_vars(Next)

TypeOK ==
    /\ pc \in {"start", "constructed", "pending", "returned", "printed",
               "exited", "raised", "crashed"}
    /\ api_key \in ApiKeys
    /\ calls \in 0..1
    /\ exchange \in {"none", "pending", "completed", "failed"}

(* ------------------------------ properties ----------------------------- *)

Terminal == {"completed", "failed"}

\* C1: the script issues no create(...) call before line 13, exactly one
\* from then on, never more than one, and writes at most one line to
\* standard output.
ExactlyOneRequest ==
    /\ calls <= 1
    /\ (pc \in {"start", "constructed"} <=> calls = 0)
    /\ (pc \notin {"start", "constructed"} => calls = 1)
    /\ Len(stdout) <= 1

ExactlyOneRequestWitness ==
    /\ pc = "exited"
    /\ calls = 1
    /\ Len(stdout) = 1

\* C2: with a non-empty api key, once the call has returned R the name
\* `response` holds R, what is printed is the text of R and nothing else,
\* and standard output is written only after the call completed.
SuccessSurfaced ==
    api_key # EmptyKey =>
        /\ (exchange = "completed" => response = delivered)
        /\ (pc \in {"printed", "exited"} =>
                /\ delivered # None
                /\ stdout = <<Str(delivered[1])>>)
        /\ (stdout # <<>> => exchange = "completed")

SuccessSurfacedWitness ==
    /\ api_key # EmptyKey
    /\ pc = "printed"
    /\ delivered # None
    /\ delivered[1].content = "hi"
    /\ stdout = <<Str(delivered[1])>>

\* C5: after a failed call, whatever the error kind, there has been one
\* call only, `response` is unbound, standard output is empty, and the
\* process is on its way out with that error: reported on standard error,
\* exit status 1.
FailureIsFinal ==
    exchange = "failed" =>
        /\ error # None
        /\ calls = 1
        /\ response = None
        /\ stdout = <<>>
        /\ pc \in {"raised", "crashed"}
        /\ (pc = "crashed" => exitcode = Some(1) /\ stderr = <<error[1]>>)

FailureIsFinalWitness ==
    /\ pc = "crashed"
    /\ exchange = "failed"
    /\ error = Some("rate_limit")
    /\ stdout = <<>>

\* C6: the extra_body handed to the call has the single group web_search,
\* with exactly the keys enable, enable_citation, enable_trace, all false.
FlagsAsConfigured ==
    request # None =>
        /\ DOMAIN request[1].extra_body = {"web_search"}
        /\ DOMAIN request[1].extra_body.web_search =
               {"enable", "enable_citation", "enable_trace"}
        /\ request[1].extra_body.web_search.enable = FALSE
        /\ request[1].extra_body.web_search.enable_citation = FALSE
        /\ request[1].extra_body.web_search.enable_trace = FALSE

FlagsAsConfiguredWitness ==
    /\ pc = "pending"
    /\ request # None
    /\ request[1].extra_body.web_search.enable = FALSE

\* C7: the messages handed to the call are one message, with role "user"
\* and the configured content, and no other field.
SoleUserMessage ==
    request # None =>
        /\ Len(request[1].messages) = 1
        /\ DOMAIN request[1].messages[1] = {"role", "content"}
        /\ request[1].messages[1].role = "user"
        /\ request[1].messages[1].content = <<24744, 22909>>

SoleUserMessageWitness ==
    /\ pc = "returned"
    /\ request # None
    /\ Len(request[1].messages) = 1

\* C9: the exchange becomes completed or failed only from pending, a
\* pending exchange goes nowhere else, a completed or failed one stays as
\* it is; and, the remote side delivering, every run reaches completed or
\* failed and the process ends.
ExchangeSettlesOnce ==
    /\ [][/\ (exchange = "pending" =>
                 exchange' \in {"pending"} \cup Terminal)
          /\ (exchange \in Terminal => exchange' = exchange)
          /\ (exchange' \in Terminal /\ exchange' # exchange =>
                 exchange = "pending")]_vars
    /\ <>(exchange \in Terminal /\ pc \in {"exited", "crashed"})

ExchangeSettlesOnceWitness ==
    /\ exchange = "completed"
    /\ pc = "exited"
    /\ exitcode = Some(0)

\* C10: once constructed, the client keeps its base_url and api_key in
\* every later step, and they are the configured ones.
ClientImmutable ==
    [][/\ (client # None => client' = client)
       /\ (client' # None =>
              client' = Some([base_url |-> "https://qianfan.baidubce.com/v2",
                              api_key |-> api_key]))]_vars

ClientImmutableWitness ==
    /\ pc = "crashed"
    /\ client = Some([base_url |-> BaseUrl, api_key |-> <<"a", "b">>])

====
